---- MODULE Spec2Model ----
(***************************************************************************)
(* The two component mounters of examples/mounters: the React mounter      *)
(* (createRoot / root.render / root.unmount) and the Solid mounter         *)
(* (render returning a disposal function).  Each is a module with two      *)
(* module-level references and three exported functions, mount, unmount    *)
(* and cleanup.  Each mounter runs in a document of its own; the two are    *)
(* driven by the same sequence of calls, so that every call sequence is    *)
(* explored for both.                                                      *)
(*                                                                         *)
(* A mounter's world is a record:                                          *)
(*   root / dispose  the stored render handle (an index of handles) or Null*)
(*   rootElement     the stored container (an index of elements) or Null   *)
(*   elements        every DOM element that exists; elements[e] is its id  *)
(*   attached        the elements that are in the document                 *)
(*   handles         every render handle the backend has created           *)
(*   log             the backend and DOM primitives the last call invoked  *)
(*   threw           whether the last call ended with an exception         *)
(*   fault           the backend primitive that throws in the last call    *)
(***************************************************************************)
EXTENDS Integers, Sequences, FiniteSets, TLC

\* null, as a stored reference: handles and elements are numbered from 1.
Null == 0
\* A handle that renders nothing.
NoTree == <<>>
Undefined == "undefined"
NoArg == "none"

Layouts == {"A", "B"}
PropsSet == {"p1", "p2"}
ReactDefaultId == "react-root"
SolidDefaultId == "solid-root"
ElementIds == {ReactDefaultId, SolidDefaultId}
ElementIdArgs == ElementIds \cup {Undefined}
Variants == {"react", "solid"}

\* The number of mount calls explored in one run.
MaxMounts == 3
\* The same, when the backend may throw.
MaxFaultyMounts == 2
\* The same, when other scripts may take elements out of the document.
MaxDetachMounts == 2
\* The same, when teardown callbacks may call the mounter.
MaxReentrantMounts == 2
\* The depth of nested dispose calls at which the engine gives up (RangeError).
MaxDepth == 2

\* react, solid        the world of each mounter after the last call
\* reactPre, solidPre  the world of each mounter before the last call
\* last, prev          the last call and the one before it
\* page                the ids of the elements the page held at load
\* nMounts             the number of mount calls made
\* prevRootElement     the container each mounter stored before the call
\*                     before the last one
\* omitted             whether some mount call so far omitted elementId
VARIABLES react, solid, reactPre, solidPre, last, prev, page, nMounts,
          prevRootElement, omitted

vars == <<react, solid, reactPre, solidPre, last, prev, page, nMounts,
          prevRootElement, omitted>>

(***************************************************************************)
(* The document.                                                           *)
(***************************************************************************)
Ev(prim, handle, elem) == [prim |-> prim, handle |-> handle, elem |-> elem]

Logged(s, ev) == [s EXCEPT !.log = Append(@, ev)]

Min(S) == CHOOSE x \in S : \A y \in S : x <= y

\* A lookup that never finds the element.
getElementByIdNeverFinds(s, elementId) == Null

\* document.getElementById(elementId): the first element of the document with
\* that id, or null.
getElementById(s, elementId) ==
  LET found == {e \in s.attached : s.elements[e] = elementId}
  IN IF found = {} THEN Null ELSE Min(found)

\* createAndAppend without the appendChild: the new element stays outside
\* the document.
createWithoutAppend(s, elementId) ==
  LET e == Len(s.elements) + 1
      s1 == [s EXCEPT !.elements = Append(@, elementId), !.rootElement = e]
  IN Logged(s1, Ev("createElement", Null, e))

\* rootElement = document.createElement('div'); rootElement.id = elementId;
\* document.body.appendChild(rootElement)
createAndAppend(s, elementId) ==
  LET e == Len(s.elements) + 1
      s1 == [s EXCEPT !.elements = Append(@, elementId), !.rootElement = e]
      s2 == Logged(s1, Ev("createElement", Null, e))
      s3 == [s2 EXCEPT !.attached = @ \cup {e}]
  IN Logged(s3, Ev("appendChild", Null, e))

\* The acquisition that creates an element without looking for one.
acquireAlwaysCreates(s, elementId) == createAndAppend(s, elementId)

\* rootElement = document.getElementById(elementId);
\* if (!rootElement) { create it and append it to the body }
acquireRootElement(s, elementId) ==
  LET found == getElementById(s, elementId)
      s1 == Logged([s EXCEPT !.rootElement = found],
                   Ev("getElementById", Null, found))
  IN IF found = Null THEN createAndAppend(s1, elementId) ELSE s1

\* removeRootElement without the removal: the reference is cleared and the
\* element stays in the document.
removeRootElementKeepsElement(s) == [s EXCEPT !.rootElement = Null]

\* removeRootElement without the final assignment: the element leaves the
\* document and stays stored.
removeRootElementKeepsReference(s) ==
  IF s.rootElement # Null /\ s.rootElement \in s.attached
  THEN Logged([s EXCEPT !.attached = @ \ {s.rootElement}],
              Ev("removeChild", Null, s.rootElement))
  ELSE s

\* removeRootElement without the optional chaining: a TypeError when no
\* container is stored.
removeRootElementUnguarded(s) ==
  IF s.rootElement = Null THEN [s EXCEPT !.threw = TRUE]
  ELSE [(IF s.rootElement \in s.attached
         THEN Logged([s EXCEPT !.attached = @ \ {s.rootElement}],
                     Ev("removeChild", Null, s.rootElement))
         ELSE s) EXCEPT !.rootElement = Null]

\* removeRootElement without the test of parentNode: a TypeError (removeChild
\* of null) when the stored container has no parent.
removeRootElementNoParentCheck(s) ==
  IF s.rootElement = Null THEN s
  ELSE IF s.rootElement \in s.attached
  THEN [Logged([s EXCEPT !.attached = @ \ {s.rootElement}],
               Ev("removeChild", Null, s.rootElement))
          EXCEPT !.rootElement = Null]
  ELSE [s EXCEPT !.threw = TRUE]

\* if (rootElement?.parentNode) rootElement.parentNode.removeChild(rootElement);
\* rootElement = null
removeRootElement(s) ==
  LET s1 == IF s.rootElement # Null /\ s.rootElement \in s.attached
            THEN Logged([s EXCEPT !.attached = @ \ {s.rootElement}],
                        Ev("removeChild", Null, s.rootElement))
            ELSE s
  IN [s1 EXCEPT !.rootElement = Null]

\* The test of mount that never takes the container for unchanged.
elementChangedAlways(s, elementId) == TRUE

\* !rootElement || rootElement.id !== elementId
elementChanged(s, elementId) ==
  s.rootElement = Null \/ s.elements[s.rootElement] # elementId

\* The backend primitives that may throw when called, and none of them.
NoFault == "none"
Faults == {NoFault, "createRoot", "render"}

\* A call starts with an empty log and no exception.
Enter(s) == [s EXCEPT !.log = <<>>, !.threw = FALSE, !.fault = NoFault]

\* A call during which the backend primitive fault throws when it is called.
EnterFaulty(s, fault) == [Enter(s) EXCEPT !.fault = fault]

NewHandle(container, tree) ==
  [container |-> container, tree |-> tree, live |-> TRUE, disposed |-> 0]

(***************************************************************************)
(* The React backend (react-dom/client) and the React mounter.             *)
(***************************************************************************)
\* root = createRoot(rootElement)
\* When createRoot throws, nothing is assigned to root.
createRoot(s) ==
  LET h == Len(s.handles) + 1
      s1 == [s EXCEPT !.handles = Append(@, NewHandle(s.rootElement, NoTree)),
                      !.root = h]
  IN IF s.fault = "createRoot"
     THEN [Logged(s, Ev("createRoot", Null, s.rootElement))
             EXCEPT !.threw = TRUE]
     ELSE Logged(s1, Ev("createRoot", h, s.rootElement))

\* root.render that swallows the exception of the backend.
rootRenderSwallows(s, Layout, props) ==
  IF s.root = Null
  THEN [s EXCEPT !.threw = TRUE]
  ELSE IF s.fault = "render" \/ ~s.handles[s.root].live
  THEN Logged(s, Ev("render", s.root, s.handles[s.root].container))
  ELSE Logged([s EXCEPT !.handles[s.root].tree = <<Layout, props>>],
              Ev("render", s.root, s.handles[s.root].container))

\* root.render(<Layout {...props} />): a TypeError when root is null; React
\* refuses to update a root that was unmounted; the call throws what the
\* backend throws.
rootRender(s, Layout, props) ==
  IF s.root = Null
  THEN [s EXCEPT !.threw = TRUE]
  ELSE IF s.fault = "render" \/ ~s.handles[s.root].live
  THEN [Logged(s, Ev("render", s.root, s.handles[s.root].container))
          EXCEPT !.threw = TRUE]
  ELSE Logged([s EXCEPT !.handles[s.root].tree = <<Layout, props>>],
              Ev("render", s.root, s.handles[s.root].container))

\* root.unmount()
rootUnmount(s) ==
  Logged([s EXCEPT !.handles[s.root].live = FALSE,
                   !.handles[s.root].tree = NoTree,
                   !.handles[s.root].disposed = @ + 1],
         Ev("unmount", s.root, s.handles[s.root].container))

\* The parameter without its default value.
ReactElementIdNoDefault(elementId) == elementId

\* elementId = 'react-root'
ReactElementId(elementId) ==
  IF elementId = Undefined THEN ReactDefaultId ELSE elementId

\* The React mount that creates a root only when none is stored: on a changed
\* elementId the stored root stays the one of the previous container.
ReactMountKeepsRoot(s, Layout, props, elementId) ==
  LET s1 == IF elementChanged(s, elementId)
            THEN IF s.root = Null
                 THEN createRoot(acquireRootElement(s, elementId))
                 ELSE acquireRootElement(s, elementId)
            ELSE s
  IN rootRender(s1, Layout, props)

\* The body of the React mount.
ReactMountBody(s, Layout, props, elementId) ==
  LET s1 == IF elementChanged(s, elementId)
            THEN createRoot(acquireRootElement(s, elementId))
            ELSE s
  IN IF s1.threw THEN s1 ELSE rootRender(s1, Layout, props)

ReactMount(s, Layout, props, elementId) ==
  ReactMountBody(Enter(s), Layout, props, ReactElementId(elementId))

\* The React unmount without its guard: a TypeError when root is null.
ReactUnmountUnguarded(s) ==
  IF s.root # Null THEN [rootUnmount(s) EXCEPT !.root = Null]
  ELSE [s EXCEPT !.threw = TRUE]

\* if (root) { root.unmount(); root = null; }
ReactUnmountBody(s) ==
  IF s.root # Null THEN [rootUnmount(s) EXCEPT !.root = Null] ELSE s

ReactUnmount(s) == ReactUnmountBody(Enter(s))

\* The React cleanup without its call of unmount.
ReactCleanupSkipsUnmount(s) == removeRootElement(s)

\* The React cleanup that removes the container before it unmounts.
ReactCleanupRemovesFirst(s) ==
  LET s1 == IF s.rootElement # Null /\ s.rootElement \in s.attached
            THEN Logged([s EXCEPT !.attached = @ \ {s.rootElement}],
                        Ev("removeChild", Null, s.rootElement))
            ELSE s
  IN [ReactUnmountBody(s1) EXCEPT !.rootElement = Null]

\* unmount(); remove rootElement from its parent; rootElement = null
ReactCleanupBody(s) == removeRootElement(ReactUnmountBody(s))

ReactCleanup(s) == ReactCleanupBody(Enter(s))

(***************************************************************************)
(* The Solid backend (solid-js/web) and the Solid mounter.                 *)
(***************************************************************************)
\* dispose(): the disposal function that render returned.
callDispose(s) ==
  Logged([s EXCEPT !.handles[s.dispose].live = FALSE,
                   !.handles[s.dispose].tree = NoTree,
                   !.handles[s.dispose].disposed = @ + 1],
         Ev("dispose", s.dispose, s.handles[s.dispose].container))

\* dispose = render(() => createComponent(Layout, props), rootElement)
\* When render throws, nothing is assigned to dispose.
solidRender(s, Layout, props) ==
  LET h == Len(s.handles) + 1
      s1 == [s EXCEPT !.handles = Append(@, NewHandle(s.rootElement,
                                                      <<Layout, props>>)),
                      !.dispose = h]
  IN IF s.fault = "render"
     THEN [Logged(s, Ev("render", Null, s.rootElement)) EXCEPT !.threw = TRUE]
     ELSE Logged(s1, Ev("render", h, s.rootElement))

\* elementId = 'solid-root'
SolidElementId(elementId) ==
  IF elementId = Undefined THEN SolidDefaultId ELSE elementId

\* The Solid mount without the disposal of the previous render.
SolidKeepsPrevious(s) == s

\* if (dispose) { dispose(); }
SolidDisposePrevious(s) == IF s.dispose # Null THEN callDispose(s) ELSE s

\* The Solid mount that disposes the previous render after the new one.
SolidMountDisposesLate(s, Layout, props, elementId) ==
  LET s1 == IF elementChanged(s, elementId)
            THEN acquireRootElement(s, elementId)
            ELSE s
      s2 == solidRender(s1, Layout, props)
  IN IF s.dispose = Null THEN s2
     ELSE Logged([s2 EXCEPT !.handles[s.dispose].live = FALSE,
                            !.handles[s.dispose].tree = NoTree,
                            !.handles[s.dispose].disposed = @ + 1],
                 Ev("dispose", s.dispose, s.handles[s.dispose].container))

\* The body of the Solid mount.
SolidMountBody(s, Layout, props, elementId) ==
  LET s1 == SolidDisposePrevious(s)
      s2 == IF elementChanged(s1, elementId)
            THEN acquireRootElement(s1, elementId)
            ELSE s1
  IN solidRender(s2, Layout, props)

SolidMount(s, Layout, props, elementId) ==
  SolidMountBody(Enter(s), Layout, props, SolidElementId(elementId))

\* The Solid unmount that keeps the reference to the disposal function.
SolidUnmountKeepsReference(s) ==
  IF s.dispose # Null THEN callDispose(s) ELSE s

\* if (dispose) { dispose(); dispose = null; }
SolidUnmountBody(s) ==
  IF s.dispose # Null THEN [callDispose(s) EXCEPT !.dispose = Null] ELSE s

SolidUnmount(s) == SolidUnmountBody(Enter(s))

\* unmount(); remove rootElement from its parent; rootElement = null
SolidCleanupBody(s) == removeRootElement(SolidUnmountBody(s))

SolidCleanup(s) == SolidCleanupBody(Enter(s))

(***************************************************************************)
(* The state machine.  The page may already hold an element for any of the *)
(* ids (at most one per id) when the mounter module is loaded.             *)
(***************************************************************************)
\* The page's elements for the ids in present, in document order.
IdOrder == <<ReactDefaultId, SolidDefaultId>>

Page(present) == SelectSeq(IdOrder, LAMBDA id : id \in present)

NoCall ==
  [op |-> "none", Layout |-> NoArg, props |-> NoArg, elementId |-> NoArg,
   callback |-> NoArg]

\* What is remembered of the call before the last one.
Brief(call) == [op |-> call.op, elementId |-> call.elementId]

\* The world a call starts from, as the next call's precondition sees it.
Before(s) == [s EXCEPT !.log = <<>>, !.fault = NoFault]

\* let root = null; let rootElement = null;
ReactInit(initial) ==
  [root |-> Null, rootElement |-> Null, elements |-> initial,
   attached |-> 1..Len(initial), handles |-> <<>>, log |-> <<>>, threw |-> FALSE,
   fault |-> NoFault]

\* let dispose = null; let rootElement = null;
SolidInit(initial) ==
  [dispose |-> Null, rootElement |-> Null, elements |-> initial,
   attached |-> 1..Len(initial), handles |-> <<>>, log |-> <<>>, threw |-> FALSE,
   fault |-> NoFault]

Init ==
  \E present \in SUBSET ElementIds :
    /\ page = present
    /\ react = ReactInit(Page(present))
    /\ solid = SolidInit(Page(present))
    /\ reactPre = react
    /\ solidPre = solid
    /\ last = NoCall
    /\ prev = Brief(NoCall)
    /\ nMounts = 0
    /\ prevRootElement = [v \in Variants |-> Null]
    /\ omitted = FALSE

Called(call) ==
  /\ reactPre' = Before(react)
  /\ solidPre' = Before(solid)
  /\ prev' = Brief(last)
  /\ last' = call
  /\ prevRootElement' = [v \in Variants |->
                           IF v = "react" THEN reactPre.rootElement
                           ELSE solidPre.rootElement]
  /\ omitted' = (omitted \/ call.elementId = Undefined)
  /\ UNCHANGED page

Mount(Layout, props, elementId) ==
  /\ nMounts < MaxMounts
  /\ react' = ReactMount(react, Layout, props, elementId)
  /\ solid' = SolidMount(solid, Layout, props, elementId)
  /\ Called([NoCall EXCEPT !.op = "mount", !.Layout = Layout,
                           !.props = props, !.elementId = elementId])
  /\ nMounts' = nMounts + 1

Unmount ==
  /\ react' = ReactUnmount(react)
  /\ solid' = SolidUnmount(solid)
  /\ Called([NoCall EXCEPT !.op = "unmount"])
  /\ UNCHANGED nMounts

Cleanup ==
  /\ react' = ReactCleanup(react)
  /\ solid' = SolidCleanup(solid)
  /\ Called([NoCall EXCEPT !.op = "cleanup"])
  /\ UNCHANGED nMounts

Next ==
  \/ \E Layout \in Layouts, props \in PropsSet, elementId \in ElementIdArgs :
       Mount(Layout, props, elementId)
  \/ Unmount
  \/ Cleanup

Spec == Init /\ [][Next]_vars

(***************************************************************************)
(* The same state machine with a backend whose calls may throw.            *)
(***************************************************************************)
ReactMountFaulty(s, Layout, props, elementId, fault) ==
  ReactMountBody(EnterFaulty(s, fault), Layout, props,
                 ReactElementId(elementId))

SolidMountFaulty(s, Layout, props, elementId, fault) ==
  SolidMountBody(EnterFaulty(s, fault), Layout, props,
                 SolidElementId(elementId))

MountFaulty(Layout, props, elementId, fault) ==
  /\ nMounts < MaxFaultyMounts
  /\ react' = ReactMountFaulty(react, Layout, props, elementId, fault)
  /\ solid' = SolidMountFaulty(solid, Layout, props, elementId, fault)
  /\ Called([NoCall EXCEPT !.op = "mount", !.Layout = Layout,
                           !.props = props, !.elementId = elementId])
  /\ nMounts' = nMounts + 1

NextFaulty ==
  \/ \E Layout \in Layouts, props \in PropsSet, elementId \in ElementIdArgs,
        fault \in Faults :
       MountFaulty(Layout, props, elementId, fault)
  \/ Unmount
  \/ Cleanup

SpecFaulty == Init /\ [][NextFaulty]_vars

(***************************************************************************)
(* The same state machine in a page whose other scripts may take elements  *)
(* out of the document: the element a mounter has stored may then have no  *)
(* parent when the mounter is called next.                                 *)
(***************************************************************************)
\* Some other script removes the elements with the given id from the
\* document; the mounter's references are as they were.
detachById(s, elementId) ==
  [Enter(s) EXCEPT
     !.attached = {e \in @ : s.elements[e] # elementId}]

DetachExternally(elementId) ==
  /\ \/ \E e \in react.attached : react.elements[e] = elementId
     \/ \E e \in solid.attached : solid.elements[e] = elementId
  /\ react' = detachById(react, elementId)
  /\ solid' = detachById(solid, elementId)
  /\ Called([NoCall EXCEPT !.op = "detach", !.elementId = elementId])
  /\ UNCHANGED nMounts

MountInPage(Layout, props, elementId) ==
  /\ nMounts < MaxDetachMounts
  /\ react' = ReactMount(react, Layout, props, elementId)
  /\ solid' = SolidMount(solid, Layout, props, elementId)
  /\ Called([NoCall EXCEPT !.op = "mount", !.Layout = Layout,
                           !.props = props, !.elementId = elementId])
  /\ nMounts' = nMounts + 1

NextDetach ==
  \/ \E Layout \in Layouts, props \in PropsSet, elementId \in ElementIdArgs :
       MountInPage(Layout, props, elementId)
  \/ Unmount
  \/ Cleanup
  \/ \E elementId \in ElementIds : DetachExternally(elementId)

SpecDetach == Init /\ [][NextDetach]_vars

(***************************************************************************)
(* The same state machine with trees whose teardown callback (an effect    *)
(* cleanup in React, onCleanup in Solid) calls the mounter's unmount or    *)
(* cleanup.  The backend runs the callback inside its dispose primitive;   *)
(* whether a dispose of a handle that is already being disposed runs the   *)
(* callback again is the backend's choice (reruns).  Calls that nest       *)
(* deeper than MaxDepth end with the engine's RangeError.                  *)
(***************************************************************************)
Callbacks == {"none", "unmount", "cleanup"}

RECURSIVE ReactUnmountReentrant(_, _, _, _)
RECURSIVE SolidUnmountReentrant(_, _, _, _)

\* root.unmount(), the teardown callback included.
rootUnmountReentrant(s, callback, reruns, depth) ==
  LET ran == ~s.handles[s.root].live
      s1 == rootUnmount(s)
  IN IF depth > MaxDepth THEN [s EXCEPT !.threw = TRUE]
     ELSE IF callback = "none" \/ (ran /\ ~reruns) THEN s1
     ELSE LET u == ReactUnmountReentrant(s1, callback, reruns, depth + 1)
          IN IF callback = "cleanup" /\ ~u.threw
             THEN removeRootElement(u) ELSE u

\* if (root) { root.unmount(); root = null; }
ReactUnmountReentrant(s, callback, reruns, depth) ==
  IF s.root = Null THEN s
  ELSE LET s1 == rootUnmountReentrant(s, callback, reruns, depth)
       IN IF s1.threw THEN s1 ELSE [s1 EXCEPT !.root = Null]

\* unmount(); remove rootElement from its parent; rootElement = null
ReactCleanupReentrant(s, callback, reruns) ==
  LET s1 == ReactUnmountReentrant(s, callback, reruns, 0)
  IN IF s1.threw THEN s1 ELSE removeRootElement(s1)

\* dispose(), the teardown callback included.
callDisposeReentrant(s, callback, reruns, depth) ==
  LET ran == ~s.handles[s.dispose].live
      s1 == callDispose(s)
  IN IF depth > MaxDepth THEN [s EXCEPT !.threw = TRUE]
     ELSE IF callback = "none" \/ (ran /\ ~reruns) THEN s1
     ELSE LET u == SolidUnmountReentrant(s1, callback, reruns, depth + 1)
          IN IF callback = "cleanup" /\ ~u.threw
             THEN removeRootElement(u) ELSE u

\* if (dispose) { dispose(); dispose = null; }
SolidUnmountReentrant(s, callback, reruns, depth) ==
  IF s.dispose = Null THEN s
  ELSE LET s1 == callDisposeReentrant(s, callback, reruns, depth)
       IN IF s1.threw THEN s1 ELSE [s1 EXCEPT !.dispose = Null]

\* unmount(); remove rootElement from its parent; rootElement = null
SolidCleanupReentrant(s, callback, reruns) ==
  LET s1 == SolidUnmountReentrant(s, callback, reruns, 0)
  IN IF s1.threw THEN s1 ELSE removeRootElement(s1)

\* The Solid mount, whose dispose() of the previous render runs the callback.
SolidMountReentrant(s, Layout, props, elementId, callback, reruns) ==
  LET s1 == IF s.dispose # Null
            THEN callDisposeReentrant(s, callback, reruns, 0)
            ELSE s
      s2 == IF elementChanged(s1, elementId)
            THEN acquireRootElement(s1, elementId)
            ELSE s1
  IN IF s1.threw THEN s1 ELSE solidRender(s2, Layout, props)

\* Callbacks are explored until some handle has exhausted the stack once.
MayNest(callback) ==
  \/ callback = "none"
  \/ /\ \A h \in 1..Len(react.handles) : react.handles[h].disposed <= MaxDepth
     /\ \A h \in 1..Len(solid.handles) : solid.handles[h].disposed <= MaxDepth

MountReentrant(Layout, props, elementId, callback, reruns) ==
  /\ nMounts < MaxReentrantMounts
  /\ MayNest(callback)
  /\ react' = ReactMount(react, Layout, props, elementId)
  /\ solid' = SolidMountReentrant(Enter(solid), Layout, props,
                                  SolidElementId(elementId), callback, reruns)
  /\ Called([NoCall EXCEPT !.op = "mount", !.Layout = Layout,
                           !.props = props, !.elementId = elementId,
                           !.callback = callback])
  /\ nMounts' = nMounts + 1

UnmountReentrant(callback, reruns) ==
  /\ MayNest(callback)
  /\ react' = ReactUnmountReentrant(Enter(react), callback, reruns, 0)
  /\ solid' = SolidUnmountReentrant(Enter(solid), callback, reruns, 0)
  /\ Called([NoCall EXCEPT !.op = "unmount", !.callback = callback])
  /\ UNCHANGED nMounts

CleanupReentrant(callback, reruns) ==
  /\ MayNest(callback)
  /\ react' = ReactCleanupReentrant(Enter(react), callback, reruns)
  /\ solid' = SolidCleanupReentrant(Enter(solid), callback, reruns)
  /\ Called([NoCall EXCEPT !.op = "cleanup", !.callback = callback])
  /\ UNCHANGED nMounts

NextReentrant ==
  \/ \E Layout \in Layouts, props \in PropsSet, elementId \in ElementIdArgs,
        callback \in Callbacks, reruns \in BOOLEAN :
       MountReentrant(Layout, props, elementId, callback, reruns)
  \/ \E callback \in Callbacks, reruns \in BOOLEAN :
       UnmountReentrant(callback, reruns)
  \/ \E callback \in Callbacks, reruns \in BOOLEAN :
       CleanupReentrant(callback, reruns)

SpecReentrant == Init /\ [][NextReentrant]_vars

(***************************************************************************)
(* Views of the two mounters under common names.                           *)
(***************************************************************************)
World(v) == IF v = "react" THEN react ELSE solid

Pre(v) == IF v = "react" THEN reactPre ELSE solidPre

\* The stored render handle: root (React), dispose (Solid).
Stored(v) == IF v = "react" THEN react.root ELSE solid.dispose

PreStored(v) == IF v = "react" THEN reactPre.root ELSE solidPre.dispose

\* The id a mount call's elementId argument stands for.
EffectiveId(v, elementId) ==
  IF v = "react" THEN ReactElementId(elementId) ELSE SolidElementId(elementId)

LiveHandles(s) == {h \in 1..Len(s.handles) : s.handles[h].live}

\* The live handles whose tree is rendered into element e.
LiveIn(s, e) == {h \in LiveHandles(s) : s.handles[h].container = e}

\* A backend event that disposes a handle / that creates one.
IsDispose(ev) == ev.prim \in {"unmount", "dispose"}

IsCreate(v, ev) == ev.prim = (IF v = "react" THEN "createRoot" ELSE "render")

\* The last call left the world as it was (the log and the outcome aside).
Untouched(v) == [World(v) EXCEPT !.log = <<>>, !.threw = Pre(v).threw] = Pre(v)

Idle(v) == Stored(v) = Null /\ World(v).rootElement = Null

PreIdle(v) == PreStored(v) = Null /\ Pre(v).rootElement = Null

PreMounted(v) == PreStored(v) # Null /\ Pre(v).rootElement # Null

PreDetached(v) == PreStored(v) = Null /\ Pre(v).rootElement # Null

\* C1: in every reachable state at most one render handle is live, in the
\* React mounter and in the Solid mounter.
C1_AtMostOneLiveHandle ==
  \A v \in Variants : Cardinality(LiveHandles(World(v))) <= 1

\* C2: a mount with an elementId other than the stored container's id, made
\* while a render handle is live, invokes the dispose primitive on that
\* handle before it creates the handle for the new container.
C2_DisposeBeforeCreate ==
  \A v \in Variants :
    ( /\ last.op = "mount"
      /\ PreMounted(v)
      /\ Pre(v).handles[PreStored(v)].live
      /\ Pre(v).elements[Pre(v).rootElement] # EffectiveId(v, last.elementId) )
    => LET log == World(v).log
       IN /\ ~World(v).handles[PreStored(v)].live
          /\ \E i, j \in DOMAIN log :
               /\ i < j
               /\ IsDispose(log[i]) /\ log[i].handle = PreStored(v)
               /\ IsCreate(v, log[j]) /\ log[j].handle > Len(Pre(v).handles)

\* C3: after a mount call that returns, exactly one UI tree is live: the given
\* component with the given props, rendered into the element of the document
\* whose id is elementId.
C3_MountLeavesExactlyOneTree ==
  \A v \in Variants :
    (last.op = "mount" /\ ~World(v).threw)
    => LET s == World(v)
       IN /\ Cardinality(LiveHandles(s)) = 1
          /\ \A h \in LiveHandles(s) :
               /\ s.handles[h].tree = <<last.Layout, last.props>>
               /\ s.handles[h].container \in s.attached
               /\ s.elements[s.handles[h].container]
                    = EffectiveId(v, last.elementId)

\* C4: a mount from the Detached state (a container stored, no handle), with
\* the same elementId or another, completes without error and leaves a live
\* render handle stored; no reachable state is terminal.
C4_DetachedMountSucceeds ==
  /\ \A v \in Variants :
       (last.op = "mount" /\ PreDetached(v))
       => /\ ~World(v).threw
          /\ Stored(v) # Null
          /\ World(v).handles[Stored(v)].live
  /\ ENABLED Next

\* C5: after cleanup nothing is stored, no tree is live and the document
\* holds exactly the elements it held before the first mount.
C5_CleanupRestoresInitialState ==
  \A v \in Variants :
    last.op = "cleanup"
    => /\ Idle(v)
       /\ LiveHandles(World(v)) = {}
       /\ World(v).attached = 1..Cardinality(page)

\* C6: cleanup in the Mounted or the Detached state disposes the stored
\* handle if there is one, removes the stored container from the document
\* and clears both stored references.
C6_CleanupDisposesRemovesClears ==
  \A v \in Variants :
    (last.op = "cleanup" /\ Pre(v).rootElement # Null)
    => LET s == World(v)
           h == PreStored(v)
       IN /\ ~s.threw
          /\ h # Null =>
               /\ ~s.handles[h].live
               /\ s.handles[h].disposed = Pre(v).handles[h].disposed + 1
               /\ \E i \in DOMAIN s.log :
                    IsDispose(s.log[i]) /\ s.log[i].handle = h
          /\ Pre(v).rootElement \notin s.attached
          /\ s.attached = Pre(v).attached \ {Pre(v).rootElement}
          /\ Idle(v)

C6_Witness ==
  /\ last.op = "cleanup"
  /\ \A v \in Variants : PreMounted(v) /\ Pre(v).rootElement \in Pre(v).attached

\* C7: unmount after a mount leaves no UI tree rendered into the stored
\* container, leaves the container in the document and the stored container
\* reference as it was; only the render handle is disposed and cleared.
C7_UnmountLeavesContainerEmpty ==
  \A v \in Variants :
    (last.op = "unmount" /\ Pre(v).rootElement # Null)
    => LET s == World(v)
       IN /\ LiveIn(s, s.rootElement) = {}
          /\ s.rootElement = Pre(v).rootElement
          /\ s.rootElement \in s.attached
          /\ s.attached = Pre(v).attached
          /\ s.elements = Pre(v).elements
          /\ Stored(v) = Null
          /\ \A h \in 1..Len(s.handles) :
               h # PreStored(v) => s.handles[h] = Pre(v).handles[h]

\* C8: unmount with no render handle stored does not throw, invokes no
\* backend primitive and changes neither the stored state nor the document.
C8_UnmountIdempotent ==
  \A v \in Variants :
    (last.op = "unmount" /\ PreStored(v) = Null)
    => /\ ~World(v).threw
       /\ World(v).log = <<>>
       /\ Untouched(v)

C8_Witness ==
  /\ last.op = "unmount"
  /\ prev.op = "unmount"
  /\ \A v \in Variants : PreDetached(v) /\ Len(World(v).handles) > 0

\* C9: cleanup in the Idle state completes without error, invokes no backend
\* primitive and leaves the document and the stored state unchanged.
C9_CleanupIdleNoop ==
  \A v \in Variants :
    (last.op = "cleanup" /\ PreIdle(v))
    => /\ ~World(v).threw
       /\ World(v).log = <<>>
       /\ Untouched(v)

C9_Witness ==
  /\ last.op = "cleanup"
  /\ prev.op = "none"
  /\ page # {}
  /\ \A v \in Variants : PreIdle(v) /\ World(v).attached # {}

\* C10: after two consecutive mounts with the same id that both return, the
\* stored handle holds the second component in the element with that id, and
\* the handle that held the first one either is that same handle or has been
\* disposed.
C10_RemountReplacesWithoutLeak ==
  \A v \in Variants :
    ( /\ last.op = "mount" /\ prev.op = "mount"
      /\ EffectiveId(v, last.elementId) = EffectiveId(v, prev.elementId)
      /\ ~Pre(v).threw /\ ~World(v).threw )
    => LET s == World(v)
           old == PreStored(v)
       IN /\ Stored(v) # Null /\ old # Null
          /\ s.handles[Stored(v)].live
          /\ s.handles[Stored(v)].tree = <<last.Layout, last.props>>
          /\ s.handles[Stored(v)].container = s.rootElement
          /\ s.rootElement = Pre(v).rootElement
          /\ s.rootElement \in s.attached
          /\ s.elements[s.rootElement] = EffectiveId(v, last.elementId)
          /\ old = Stored(v) \/ ~s.handles[old].live
          /\ s.handles[old].tree \in {NoTree, <<last.Layout, last.props>>}

C10_Witness ==
  /\ last.op = "mount" /\ prev.op = "mount"
  /\ \A v \in Variants :
       /\ EffectiveId(v, last.elementId) = EffectiveId(v, prev.elementId)
       /\ ~Pre(v).threw /\ ~World(v).threw
       /\ Pre(v).handles[PreStored(v)].tree # <<last.Layout, last.props>>

\* The last two calls were mounts with the same id.
Remount(v) ==
  /\ last.op = "mount" /\ prev.op = "mount"
  /\ EffectiveId(v, last.elementId) = EffectiveId(v, prev.elementId)

\* A DOM event that looks up, creates or appends an element.
IsAcquire(ev) == ev.prim \in {"getElementById", "createElement", "appendChild"}

\* C11: a mount that follows a mount with the same elementId does not look up,
\* create or append a container, and leaves the document's elements as they
\* were; the React mounter does not call createRoot again and keeps its root.
C11_RemountReusesHandleAndContainer ==
  \A v \in Variants :
    Remount(v)
    => LET s == World(v)
       IN /\ \A i \in DOMAIN s.log : ~IsAcquire(s.log[i])
          /\ s.rootElement = Pre(v).rootElement
          /\ s.elements = Pre(v).elements
          /\ s.attached = Pre(v).attached
          /\ v = "react" =>
               /\ \A i \in DOMAIN s.log : s.log[i].prim # "createRoot"
               /\ Len(s.handles) = Len(Pre(v).handles)
               /\ Stored(v) = PreStored(v)

C11_Witness ==
  /\ nMounts = 3
  /\ \A v \in Variants : Remount(v) /\ ~World(v).threw
  /\ react.root # Null
  /\ react.handles[react.root].tree # reactPre.handles[react.root].tree

\* The elements of the document with the given id.
WithId(s, elementId) == {e \in s.attached : s.elements[e] = elementId}

\* C12: after a mount, and so after any sequence of mounts with the same
\* elementId, the document holds exactly one element with that id.
C12_OneContainerPerMountedId ==
  \A v \in Variants :
    last.op = "mount"
    => Cardinality(WithId(World(v), EffectiveId(v, last.elementId))) = 1

C12_Witness ==
  /\ nMounts = 3
  /\ page # {}
  /\ \A v \in Variants :
       /\ Remount(v)
       /\ Len(World(v).elements) = Cardinality(page)
       /\ World(v).rootElement # Null

\* The last call was a mount, right after a cleanup that removed a container
\* with the id now asked for.
MountAfterCleanup(v) ==
  /\ last.op = "mount" /\ prev.op = "cleanup"
  /\ prevRootElement[v] # Null
  /\ Pre(v).elements[prevRootElement[v]] = EffectiveId(v, last.elementId)

\* C13: a mount after cleanup, with the id of the container that cleanup
\* removed, creates a new element with that id, appends it to the body and
\* obtains a fresh render handle for it; the removed container and the
\* disposed handle are not used again.
C13_MountAfterCleanupRecreates ==
  \A v \in Variants :
    MountAfterCleanup(v)
    => LET s == World(v)
           e == Len(Pre(v).elements) + 1
           h == Len(Pre(v).handles) + 1
       IN /\ ~s.threw
          /\ Len(s.elements) = e /\ s.rootElement = e
          /\ s.elements[e] = EffectiveId(v, last.elementId)
          /\ s.attached = Pre(v).attached \cup {e}
          /\ prevRootElement[v] \notin s.attached
          /\ \E i, j \in DOMAIN s.log :
               /\ i < j
               /\ s.log[i].prim = "createElement" /\ s.log[i].elem = e
               /\ s.log[j].prim = "appendChild" /\ s.log[j].elem = e
          /\ Len(s.handles) = h /\ Stored(v) = h
          /\ s.handles[h] = NewHandle(e, <<last.Layout, last.props>>)
          /\ \A g \in 1..(h - 1) : s.handles[g] = Pre(v).handles[g]

C13_Witness ==
  /\ \A v \in Variants :
       /\ MountAfterCleanup(v)
       /\ Len(World(v).handles) = 2
       /\ ~World(v).handles[1].live
  /\ page # {}

\* The last call was a mount that had to acquire a container.
MountAcquires(v) ==
  /\ last.op = "mount"
  /\ \/ Pre(v).rootElement = Null
     \/ Pre(v).elements[Pre(v).rootElement] # EffectiveId(v, last.elementId)

\* The places of the log where the primitive prim was invoked.
Calls(s, prim) == {i \in DOMAIN s.log : s.log[i].prim = prim}

\* C14: a mount that has to acquire a container takes the element of the
\* document with that id if there is one and creates nothing; otherwise it
\* creates exactly one element with that id and appends it to the body; in
\* both cases it renders the component with the props into that element.
C14_MountAcquiresContainer ==
  \A v \in Variants :
    MountAcquires(v)
    => LET s == World(v)
           id == EffectiveId(v, last.elementId)
           found == WithId(Pre(v), id)
           e == Len(Pre(v).elements) + 1
       IN /\ IF found # {}
             THEN /\ s.rootElement \in found
                  /\ s.elements = Pre(v).elements
                  /\ s.attached = Pre(v).attached
                  /\ Calls(s, "createElement") = {}
                  /\ Calls(s, "appendChild") = {}
             ELSE /\ s.elements = Append(Pre(v).elements, id)
                  /\ s.rootElement = e
                  /\ s.attached = Pre(v).attached \cup {e}
                  /\ Cardinality(Calls(s, "createElement")) = 1
                  /\ Cardinality(Calls(s, "appendChild")) = 1
          /\ ~s.threw
          /\ Stored(v) # Null
          /\ s.handles[Stored(v)].live
          /\ s.handles[Stored(v)].container = s.rootElement
          /\ s.handles[Stored(v)].tree = <<last.Layout, last.props>>

\* An empty document: mount creates the element.
C14_Witness ==
  /\ page = {}
  /\ nMounts = 1
  /\ \A v \in Variants :
       /\ MountAcquires(v)
       /\ World(v).attached = {1}
       /\ Calls(World(v), "appendChild") # {}

\* The containers that hold a live tree.
LiveContainers(s) == {s.handles[h].container : h \in LiveHandles(s)}

\* C15: driven by the same calls (elementId given in each mount, since the
\* default ids differ), the two mounters agree on the stored container, on
\* the elements of the document, on the containers that hold a live tree and
\* on the outcome of each call.
C15_VariantsEquivalent ==
  ~omitted
  => /\ react.rootElement = solid.rootElement
     /\ react.elements = solid.elements
     /\ react.attached = solid.attached
     /\ LiveContainers(react) = LiveContainers(solid)
     /\ react.threw = solid.threw

\* The last call was a mount in which the backend's render call was made and
\* threw.
RenderThrew(v) ==
  /\ last.op = "mount"
  /\ World(v).fault = "render"
  /\ Calls(World(v), "render") # {}

\* C16: when the backend's render call throws during mount, mount ends with
\* that exception: it does not return normally, calls render once and calls
\* nothing after it.
C16_RenderExceptionPropagates ==
  \A v \in Variants :
    RenderThrew(v)
    => LET s == World(v)
       IN /\ s.threw
          /\ Calls(s, "render") = {Len(s.log)}

C16_Witness == \A v \in Variants : RenderThrew(v) /\ World(v).threw

\* C17: a mount call that omits elementId leaves each mounter in the state
\* that the same call with the mounter's default id ('react-root',
\* 'solid-root') leaves it in, log and outcome included.
C17_OmittedIdIsDefaultId ==
  (last.op = "mount" /\ last.elementId = Undefined)
  => /\ react = ReactMount(reactPre, last.Layout, last.props, ReactDefaultId)
     /\ solid = SolidMount(solidPre, last.Layout, last.props, SolidDefaultId)
     /\ react.elements[react.rootElement] = "react-root"
     /\ solid.elements[solid.rootElement] = "solid-root"

C17_Witness ==
  /\ last.op = "mount" /\ last.elementId = Undefined
  /\ prev.op = "mount" /\ prev.elementId # Undefined
  /\ reactPre.elements[reactPre.rootElement] # "react-root"
  /\ solidPre.elements[solidPre.rootElement] = "solid-root"
  /\ react.elements[react.rootElement] # solid.elements[solid.rootElement]
  /\ ~react.threw /\ ~solid.threw

\* The last call was a mount with an id other than the stored container's,
\* made while a handle was stored.
MountSwitches(v) ==
  /\ last.op = "mount"
  /\ PreMounted(v)
  /\ Pre(v).elements[Pre(v).rootElement] # EffectiveId(v, last.elementId)

\* C18: mount removes no element from the document; a mount with another
\* elementId disposes the previous root's tree, leaves the previous container
\* in the document and moves the stored reference to the new container.
C18_MountSwitchDisposesKeepsContainer ==
  \A v \in Variants :
    /\ last.op = "mount" => Pre(v).attached \subseteq World(v).attached
    /\ MountSwitches(v)
       => /\ ~World(v).handles[PreStored(v)].live
          /\ LiveIn(World(v), Pre(v).rootElement) = {}
          /\ Pre(v).rootElement \in World(v).attached
          /\ World(v).rootElement # Pre(v).rootElement
          /\ World(v).elements[World(v).rootElement]
               = EffectiveId(v, last.elementId)

\* C19: between calls each mounter is Idle (nothing stored), Mounted (a
\* container and a handle) or Detached (a container, no handle): a render
\* handle is never stored while no container is.
C19_HandleImpliesContainer ==
  \A v \in Variants : Stored(v) # Null => World(v).rootElement # Null

\* Idle again after Mounted and Detached.
C19_Witness ==
  /\ last.op = "cleanup" /\ prev.op = "unmount"
  /\ \A v \in Variants :
       /\ PreDetached(v)
       /\ Idle(v)
       /\ Len(World(v).handles) > 0

\* C20: cleanup disposes the stored handle, and clears its reference, before
\* it removes the container from the document: every disposal of its log
\* comes before the removal, and the handle is no longer live at the end.
C20_CleanupDisposesBeforeRemoval ==
  \A v \in Variants :
    (last.op = "cleanup" /\ PreMounted(v))
    => LET s == World(v)
       IN /\ \A j \in Calls(s, "removeChild") :
               /\ s.log[j].elem = Pre(v).rootElement
               /\ \E i \in 1..(j - 1) :
                    IsDispose(s.log[i]) /\ s.log[i].handle = PreStored(v)
               /\ \A i \in DOMAIN s.log : IsDispose(s.log[i]) => i < j
          /\ Pre(v).rootElement \in Pre(v).attached
               => Calls(s, "removeChild") # {}
          /\ ~s.handles[PreStored(v)].live
          /\ Stored(v) = Null

C20_Witness ==
  /\ last.op = "cleanup"
  /\ \A v \in Variants :
       /\ PreMounted(v)
       /\ Len(World(v).log) = 2
       /\ World(v).log[2].prim = "removeChild"


\* The Solid trees that are live after the first k primitives of the last
\* call.
SolidLiveAt(k) ==
  LET log == solid.log
  IN (LiveHandles(solidPre)
        \ {log[i].handle : i \in {j \in 1..k : IsDispose(log[j])}})
     \cup {log[i].handle : i \in {j \in 1..k : /\ log[j].prim = "render"
                                              /\ log[j].handle # Null}}

\* C21: a Solid mount made while a disposal function is stored invokes it
\* before the render call, with the same elementId as well as with another;
\* at no point of a Solid mount are two Solid trees live.
C21_SolidDisposesBeforeRender ==
  last.op = "mount"
  => /\ solidPre.dispose # Null
          => /\ \E i \in Calls(solid, "dispose") :
                  /\ solid.log[i].handle = solidPre.dispose
                  /\ \A j \in Calls(solid, "render") : i < j
             /\ Calls(solid, "render") # {}
     /\ \A k \in 0..Len(solid.log) : Cardinality(SolidLiveAt(k)) <= 1

\* A Solid remount with the same id over a live tree.
C21_Witness ==
  /\ Remount("solid")
  /\ solidPre.dispose # Null
  /\ solidPre.handles[solidPre.dispose].live
  /\ solid.rootElement = solidPre.rootElement
  /\ Len(solid.log) = 2
  /\ solid.dispose # solidPre.dispose


\* The stored container had no parent when the last call was made.
PreOrphaned(v) ==
  Pre(v).rootElement # Null /\ Pre(v).rootElement \notin Pre(v).attached

\* C22: cleanup with a stored container that has no parent removes nothing
\* and does not throw; it disposes the stored handle, if there is one, and
\* clears both references.
C22_CleanupOfOrphanedContainer ==
  \A v \in Variants :
    (last.op = "cleanup" /\ PreOrphaned(v))
    => LET s == World(v)
           h == PreStored(v)
       IN /\ ~s.threw
          /\ Calls(s, "removeChild") = {}
          /\ s.attached = Pre(v).attached
          /\ s.elements = Pre(v).elements
          /\ h # Null =>
               /\ ~s.handles[h].live
               /\ s.handles[h].disposed = Pre(v).handles[h].disposed + 1
               /\ \E i \in DOMAIN s.log :
                    IsDispose(s.log[i]) /\ s.log[i].handle = h
          /\ Idle(v)

C22_Witness ==
  /\ last.op = "cleanup" /\ prev.op = "detach"
  /\ \A v \in Variants :
       /\ PreMounted(v)
       /\ PreOrphaned(v)
       /\ Pre(v).handles[PreStored(v)].live


\* C23: whenever a render handle and a container are both stored, the handle
\* was created for (React) or rendered into (Solid) the stored container.
C23_HandleBoundToStoredContainer ==
  \A v \in Variants :
    (Stored(v) # Null /\ World(v).rootElement # Null)
    => World(v).handles[Stored(v)].container = World(v).rootElement

\* After a switch to another id and back, with an unmount on the way.
C23_Witness ==
  /\ nMounts = 3
  /\ last.op = "mount"
  /\ \A v \in Variants :
       /\ Stored(v) # Null /\ World(v).rootElement # Null
       /\ \E h \in 1..Len(World(v).handles) :
            World(v).handles[h].container # World(v).rootElement
       /\ \E h \in 1..Len(World(v).handles) :
            /\ h # Stored(v)
            /\ World(v).handles[h].container = World(v).rootElement


\* C24: with backend primitives that return normally, the dispose primitive
\* is invoked at most once on each render handle, so never on a handle that
\* is already disposed; cleanup in the Detached state disposes nothing.
C24_DisposeAtMostOncePerHandle ==
  \A v \in Variants :
    /\ \A h \in 1..Len(World(v).handles) :
         /\ World(v).handles[h].disposed <= 1
         /\ World(v).handles[h].live <=> World(v).handles[h].disposed = 0
    /\ \A i \in DOMAIN World(v).log :
         IsDispose(World(v).log[i])
         => /\ World(v).log[i].handle \in 1..Len(Pre(v).handles)
            /\ Pre(v).handles[World(v).log[i].handle].disposed = 0
    /\ (last.op = "cleanup" /\ PreDetached(v))
       => \A i \in DOMAIN World(v).log : ~IsDispose(World(v).log[i])

\* Cleanup from the Detached state, after an unmount that disposed a handle.
C24_Witness ==
  /\ last.op = "cleanup" /\ prev.op = "unmount"
  /\ \A v \in Variants :
       /\ PreDetached(v)
       /\ Pre(v).rootElement \in Pre(v).attached
       /\ \E h \in 1..Len(World(v).handles) : World(v).handles[h].disposed = 1
       /\ Calls(World(v), "removeChild") # {}


\* The last call was a mount in which the backend call that creates the
\* handle or renders was made and threw.
BackendThrew(v) ==
  /\ last.op = "mount"
  /\ World(v).fault # NoFault
  /\ Calls(World(v), World(v).fault) # {}
  /\ World(v).threw

\* C25: after a mount in which a backend call threw, a stored handle is live
\* and bound to the stored container; no later call disposes a handle a
\* second time.
C25_ThrowLeavesStateConsistent ==
  \A v \in Variants :
    /\ BackendThrew(v)
       => (Stored(v) # Null
           => /\ World(v).handles[Stored(v)].live
              /\ World(v).handles[Stored(v)].container = World(v).rootElement)
    /\ \A h \in 1..Len(World(v).handles) : World(v).handles[h].disposed <= 1


\* C26: the page holds at most one element per id at load, and every state
\* reached by mount (with any elementId), unmount and cleanup calls holds at
\* most one element per id in the document.
C26_AtMostOneElementPerId ==
  \A v \in Variants :
    \A elementId \in ElementIds :
      Cardinality(WithId(World(v), elementId)) <= 1

\* Back to the id of the first mount, whose element is still in the document.
C26_Witness ==
  /\ page = {}
  /\ nMounts = 3
  /\ last.op = "mount" /\ prev.op = "mount"
  /\ \A v \in Variants :
       /\ Len(World(v).elements) = 2
       /\ World(v).attached = {1, 2}
       /\ World(v).rootElement = 1
       /\ Pre(v).rootElement = 2


\* The last call was an unmount or a cleanup of a live tree whose teardown
\* callback called the mounter.
Reentered(v) ==
  /\ last.op \in {"unmount", "cleanup"}
  /\ last.callback \in {"unmount", "cleanup"}
  /\ PreStored(v) # Null
  /\ Pre(v).handles[PreStored(v)].live

\* C27: when a teardown callback of the tree being disposed calls unmount or
\* cleanup, the handle's dispose primitive is invoked exactly once and the
\* outer call returns, with the handle reference cleared.
C27_ReentrantDisposeOnce ==
  \A v \in Variants :
    Reentered(v)
    => LET s == World(v)
           h == PreStored(v)
       IN /\ ~s.threw
          /\ Stored(v) = Null
          /\ s.handles[h].disposed = 1
          /\ Cardinality({i \in DOMAIN s.log : IsDispose(s.log[i])}) = 1

====
